---- MODULE Spec2Model ----
(***************************************************************************)
(* Client-side state containers of the cy-collects storefront and the      *)
(* remote tables they mirror.                                              *)
(*                                                                         *)
(* The remote store (Supabase/PostgREST) is a set of rows per table.  A    *)
(* remote call is three steps: the client issues the request (reading its  *)
(* closure's state), the server serves it, and the awaiting code resumes   *)
(* and applies the result.  Any served request may instead fail with an    *)
(* error and no effect.  A mutation that asks for .single() fails, with    *)
(* its transaction rolled back, unless exactly one row is returned.        *)
(* Ids and created_at are issued by the server from one increasing         *)
(* counter, so ordering by created_at is ordering by id.                   *)
(***************************************************************************)
EXTENDS Integers, Sequences, FiniteSets, TLC

VARIABLES
    user,        \* AuthContext: the authenticated identity, or Null
    carts,       \* remote table carts
    cart,        \* CartProvider: local mirror
    cartLoading, \* CartProvider: loading
    cartEffect,  \* generation of the CartProvider effect closure whose `mounted` is true
    cartFetch,   \* fetchCart calls in flight
    cartCalls,   \* cart mutations in flight
    cartRet,     \* value returned by the cart operation that returned last
    nextId,      \* server: next id / created_at
    nextCall,    \* number of cart operations started so far
    otherWrote,  \* history: another session wrote to carts
    table,       \* the provider observed: the name of its table
    rows,        \* remote table `table`
    items,       \* the provider's local collection
    loading,     \* the provider's loading
    fetched,     \* the provider's initial fetch, while in flight
    events,      \* postgres_changes events queued on the provider's channel
    calls,       \* the provider's mutations in flight
    ret,         \* what the provider's operation that returned last returned
    writes,      \* number of writes to `table` requested so far
    productsWithCategory, \* ProductProvider's productsWithCategory
    categoryLookups,      \* INSERT handlers of ProductProvider awaiting the category
    user_details,\* remote table user_details
    userDetails, \* UserDetailsProvider's userDetails
    udLoading,   \* UserDetailsProvider's loading
    mountedRef,  \* UserDetailsProvider's mountedRef.current
    creatingRef, \* UserDetailsProvider's creatingRef.current
    lookups,     \* runs of fetchUserDetails suspended at an await
    udEffect,    \* number of runs of UserDetailsProvider's effect so far
    upSite,      \* the form observed: which handleSubmit
    upForm,      \* the form's formData media fields
    upFiles,     \* slots with a file selected
    upPc,        \* handleSubmit: "idle", or where its await of uploadImage stands
    upSlot,      \* position in Slots of the file being uploaded
    upResult,    \* what uploadImage returned: a URL or Null
    upFinal,     \* handleSubmit's finalFormData media fields / mediaUrl
    upAlert,     \* the modal's showAlert.isOpen
    upFailed,    \* history: an upload of the submission in progress returned null
    upWrites,    \* payloads handed to onSave / addWantToBuy so far
    upSubmits,   \* number of submissions so far
    searchItems, \* the collection a search function closes over
    searchQuery, \* the query of the last search, or NoQuery
    searchResult,\* what the last search returned
    session,     \* AuthProvider's session
    authLoading, \* AuthProvider's loading
    authSession, \* supabase.auth: the session the client holds now
    authVersion, \* supabase.auth: number of changes of its session so far
    initialSession, \* AuthProvider's run of getInitialSession
    sessionSetBy,   \* history: what set AuthProvider's session last, and from which version
    unmounted    \* the provider observed has been unmounted

cartVars == <<carts, cart, cartLoading, cartEffect, cartFetch, cartCalls,
              cartRet, nextCall, otherWrote>>

bridgeVars == <<table, rows, items, loading, fetched, events, calls, ret,
                writes, productsWithCategory, categoryLookups>>

udVars == <<user_details, userDetails, udLoading, mountedRef, creatingRef, lookups,
            udEffect>>

upVars == <<upSite, upForm, upFiles, upPc, upSlot, upResult, upFinal, upAlert, upFailed,
            upWrites, upSubmits>>

searchVars == <<searchItems, searchQuery, searchResult>>

authVars == <<session, authLoading, authSession, authVersion, initialSession,
              sessionSetBy>>

vars == <<user, nextId, cartVars, bridgeVars, udVars, upVars, searchVars, authVars, unmounted>>

Null == "null"

Users == {"u1", "u2"}
\* targets of this session's cart operations; rows for product "p2" exist
\* in the remote table but are never an operation's target
Products == {"p1"}
Services == {"s1"}

\* bounds
MaxOps == 2
MaxGen == 2
MaxAmount == 4
MaxQty == 1
MaxInFlight == 2
MaxWrites == 2
MaxSubmits == 2
Quantities == -1 .. MaxQty

NoRet == [op |-> "none", error |-> Null]

\* remote calls (fetches and mutations) awaiting their results
InFlight == Cardinality(cartFetch) + Cardinality(cartCalls)

NoUserError == "No user logged in"
RemoteError == "remote error"

----------------------------------------------------------------------------
(* Sequence helpers (Array.prototype.find / filter / map)                  *)

Range(s) == {s[i] : i \in DOMAIN s}

RECURSIVE SortDesc(_)
\* .order("created_at", { ascending: false })
SortDesc(S) ==
    IF S = {} THEN <<>>
    ELSE LET top == CHOOSE r \in S : \A o \in S : o.id <= r.id
         IN  <<top>> \o SortDesc(S \ {top})

CartRow(id, u, p, s, a) ==
    [id |-> id, user_id |-> u, product_id |-> p, service_id |-> s, amount |-> a]

NoRow == CartRow(0, Null, Null, Null, 0)

\* cart.find(item => item.product_id === productId): index of the first
\* match, 0 when find returns undefined
FindProduct(c, p) ==
    LET idx == {i \in DOMAIN c : c[i].product_id = p}
    IN  IF idx = {} THEN 0 ELSE CHOOSE i \in idx : \A j \in idx : i <= j

\* cart.find(item => item.service_id === serviceId)
FindService(c, s) ==
    LET idx == {i \in DOMAIN c : c[i].service_id = s}
    IN  IF idx = {} THEN 0 ELSE CHOOSE i \in idx : \A j \in idx : i <= j

\* rows selected by a request's .eq("user_id", ..) and, unless the request
\* is clearCart's, .eq("product_id" | "service_id", ..)
Matching(tbl, c) ==
    {r \in tbl : /\ r.user_id = c.uid
                 /\ CASE c.col = "product_id" -> r.product_id = c.target
                      [] c.col = "service_id" -> r.service_id = c.target
                      [] OTHER -> TRUE}

\* rows selected by .eq("user_id", u)
UserRows(tbl, u) == {r \in tbl : r.user_id = u}

\* item.product_id === productId / item.service_id === serviceId
Targets(r, col, target) ==
    IF col = "product_id" THEN r.product_id = target ELSE r.service_id = target

----------------------------------------------------------------------------
(* Initial state: AuthProvider starts with user = null, so CartProvider's  *)
(* first effect run has set cart = [] and loading = false.  The remote     *)
(* table may already hold rows written by earlier sessions.                *)

InitCarts == { {},
               {CartRow(1, "u1", "p1", Null, 1), CartRow(2, "u1", "p2", Null, 2),
                CartRow(3, "u2", Null, "s1", 2)} }

CartInit ==
    /\ user = Null
    /\ carts \in InitCarts
    /\ cart = <<>>
    /\ cartLoading = FALSE
    /\ cartEffect = 0
    /\ cartFetch = {}
    /\ cartCalls = {}
    /\ cartRet = NoRet
    /\ nextId = 4
    /\ nextCall = 0
    /\ otherWrote = FALSE

----------------------------------------------------------------------------
(* AuthProvider and the CartProvider effect                                *)

\* AuthProvider's onAuthStateChange callback sets user; when the user object
\* changed, CartProvider's effect cleanup clears the old closure's `mounted`
\* and the effect runs fetchCart for the new user.
CartAuthStateChange(u) ==
    /\ table = "carts"
    /\ ~unmounted
    /\ cartEffect < MaxGen
    /\ ~(u = Null /\ user = Null)
    /\ u # Null => InFlight < MaxInFlight
    /\ user' = u
    /\ cartEffect' = cartEffect + 1
    /\ IF u = Null
         THEN /\ cart' = <<>>
              /\ cartLoading' = FALSE
              /\ UNCHANGED cartFetch
         ELSE /\ cartLoading' = TRUE
              /\ cartFetch' = cartFetch \cup
                     {[gen |-> cartEffect + 1, uid |-> u, pc |-> "sent",
                       err |-> FALSE, data |-> <<>>]}
              /\ UNCHANGED cart
    /\ UNCHANGED <<carts, cartCalls, cartRet, nextId, nextCall, otherWrote>>
    /\ UNCHANGED <<bridgeVars, udVars, upVars, searchVars, authVars, unmounted>>

\* the server serves fetchCart's select
FetchCartServe(f) ==
    /\ f \in cartFetch
    /\ f.pc = "sent"
    /\ \E fail \in BOOLEAN :
          cartFetch' = (cartFetch \ {f}) \cup
              {[f EXCEPT !.pc = "replied", !.err = fail,
                         !.data = IF fail THEN <<>>
                                  ELSE SortDesc(UserRows(carts, f.uid))]}
    /\ UNCHANGED <<user, carts, cart, cartLoading, cartEffect, cartCalls, cartRet,
                   nextId, nextCall, otherWrote>>
    /\ UNCHANGED <<bridgeVars, udVars, upVars, searchVars, authVars, unmounted>>

\* a fetchCart whose error branch leaves loading as it is
FetchCartResumeErrorKeepsLoading(f) ==
    /\ f \in cartFetch
    /\ f.pc = "replied"
    /\ cartFetch' = cartFetch \ {f}
    /\ IF f.gen = cartEffect /\ ~unmounted
         THEN /\ cart' = IF f.err THEN <<>> ELSE f.data
              /\ cartLoading' = (f.err /\ cartLoading)
         ELSE UNCHANGED <<cart, cartLoading>>
    /\ UNCHANGED <<user, carts, cartEffect, cartCalls, cartRet, nextId, nextCall,
                   otherWrote>>
    /\ UNCHANGED <<bridgeVars, udVars, upVars, searchVars, authVars, unmounted>>

\* fetchCart resumes after its await
FetchCartResume(f) ==
    /\ f \in cartFetch
    /\ f.pc = "replied"
    /\ cartFetch' = cartFetch \ {f}
    /\ IF f.gen = cartEffect /\ ~unmounted
         THEN /\ cart' = IF f.err THEN <<>> ELSE f.data
              /\ cartLoading' = FALSE
         ELSE UNCHANGED <<cart, cartLoading>>
    /\ UNCHANGED <<user, carts, cartEffect, cartCalls, cartRet, nextId, nextCall,
                   otherWrote>>
    /\ UNCHANGED <<bridgeVars, udVars, upVars, searchVars, authVars, unmounted>>

----------------------------------------------------------------------------
(* CartProvider operations                                                 *)

\* the early return `if (!user) return { error: "No user logged in" }`
ReturnNoUser(op) ==
    /\ table = "carts"
    /\ ~unmounted
    /\ user = Null
    /\ cartRet' = [op |-> op, error |-> NoUserError]
    /\ UNCHANGED <<user, carts, cart, cartLoading, cartEffect, cartFetch, cartCalls,
                   nextId, nextCall, otherWrote>>
    /\ UNCHANGED <<bridgeVars, udVars, upVars, searchVars, authVars, unmounted>>

\* issue one request to the carts table and suspend at its await
SendCartRequest(op, arg, kind, col, target, amount) ==
    /\ table = "carts"
    /\ ~unmounted
    /\ nextCall < MaxOps
    /\ InFlight < MaxInFlight
    /\ amount <= MaxAmount
    /\ nextCall' = nextCall + 1
    /\ cartCalls' = cartCalls \cup
          {[cid |-> nextCall + 1, op |-> op, arg |-> arg, kind |-> kind, uid |-> user,
            col |-> col, target |-> target, amount |-> amount,
            pc |-> "sent", err |-> FALSE, data |-> NoRow]}
    /\ UNCHANGED <<user, carts, cart, cartLoading, cartEffect, cartFetch, cartRet,
                   nextId, otherWrote>>
    /\ UNCHANGED <<bridgeVars, udVars, upVars, searchVars, authVars, unmounted>>

\* removeFromCart(productId) past its user check
RemoveFromCartBody(op, arg, p) ==
    SendCartRequest(op, arg, "delete", "product_id", p, 0)

\* UpdateCartItemBody deleting only on a negative quantity
UpdateCartItemBodyNegativeOnly(op, arg, p, quantity) ==
    IF quantity < 0
    THEN RemoveFromCartBody(op, arg, p)
    ELSE SendCartRequest(op, arg, "update", "product_id", p, quantity)

\* updateCartItem(productId, quantity) past its user check
UpdateCartItemBody(op, arg, p, quantity) ==
    IF quantity <= 0
    THEN RemoveFromCartBody(op, arg, p)
    ELSE SendCartRequest(op, arg, "update", "product_id", p, quantity)

\* addToCart with the existence test inverted
addToCartInverted(p, quantity) ==
    \/ ReturnNoUser("addToCart")
    \/ /\ user # Null
       /\ LET i == FindProduct(cart, p)
          IN  IF i = 0
              THEN UpdateCartItemBody("addToCart", quantity, p, quantity)
              ELSE SendCartRequest("addToCart", quantity, "insert", "product_id", p, quantity)

\* addToCart passing the added quantity, not the sum, to updateCartItem
addToCartNoSum(p, quantity) ==
    \/ ReturnNoUser("addToCart")
    \/ /\ user # Null
       /\ LET i == FindProduct(cart, p)
          IN  IF i # 0
              THEN UpdateCartItemBody("addToCart", quantity, p, quantity)
              ELSE SendCartRequest("addToCart", quantity, "insert", "product_id", p, quantity)

addToCart(p, quantity) ==
    \/ ReturnNoUser("addToCart")
    \/ /\ user # Null
       /\ LET i == FindProduct(cart, p)
          IN  IF i # 0
              THEN UpdateCartItemBody("addToCart", quantity, p, cart[i].amount + quantity)
              ELSE SendCartRequest("addToCart", quantity, "insert", "product_id", p, quantity)

addServiceToCart(s, quantity) ==
    \/ ReturnNoUser("addServiceToCart")
    \/ /\ user # Null
       /\ LET i == FindService(cart, s)
          IN  IF i # 0
              THEN SendCartRequest("addServiceToCart", quantity, "update", "service_id", s,
                                   cart[i].amount + quantity)
              ELSE SendCartRequest("addServiceToCart", quantity, "insert", "service_id", s,
                                   quantity)

removeFromCart(p) ==
    \/ ReturnNoUser("removeFromCart")
    \/ /\ user # Null
       /\ RemoveFromCartBody("removeFromCart", 0, p)

removeServiceFromCart(s) ==
    \/ ReturnNoUser("removeServiceFromCart")
    \/ /\ user # Null
       /\ SendCartRequest("removeServiceFromCart", 0, "delete", "service_id", s, 0)

updateCartItem(p, quantity) ==
    \/ ReturnNoUser("updateCartItem")
    \/ /\ user # Null
       /\ UpdateCartItemBody("updateCartItem", quantity, p, quantity)

\* a clearCart without the user check
clearCartUnchecked == SendCartRequest("clearCart", 0, "delete", "all", Null, 0)

clearCart ==
    \/ ReturnNoUser("clearCart")
    \/ /\ user # Null
       /\ SendCartRequest("clearCart", 0, "delete", "all", Null, 0)

\* an insert that fills both target columns
InsertedRowBothTargets(c, id) == CartRow(id, c.uid, c.target, c.target, c.amount)

\* the row an insert request writes
InsertedRow(c, id) ==
    CartRow(id, c.uid,
            IF c.col = "product_id" THEN c.target ELSE Null,
            IF c.col = "service_id" THEN c.target ELSE Null,
            c.amount)

\* the server serves a cart mutation
CartServe(c) ==
    /\ c \in cartCalls
    /\ c.pc = "sent"
    /\ \E fail \in BOOLEAN :
         LET m == Matching(carts, c)
             one == CHOOSE r \in m : TRUE
             new == IF c.kind = "insert" THEN InsertedRow(c, nextId)
                    ELSE [one EXCEPT !.amount = c.amount]
             err == fail \/ (c.kind = "update" /\ Cardinality(m) # 1)
         IN  /\ cartCalls' = (cartCalls \ {c}) \cup
                    {[c EXCEPT !.pc = "replied", !.err = err,
                               !.data = IF err \/ c.kind = "delete" THEN NoRow ELSE new]}
             /\ carts' = CASE err -> carts
                           [] c.kind = "insert" -> carts \cup {new}
                           [] c.kind = "update" -> (carts \ m) \cup {new}
                           [] OTHER -> carts \ m
             /\ nextId' = IF ~err /\ c.kind = "insert" THEN nextId + 1 ELSE nextId
    /\ UNCHANGED <<user, cart, cartLoading, cartEffect, cartFetch, cartRet,
                   nextCall, otherWrote>>
    /\ UNCHANGED <<bridgeVars, udVars, upVars, searchVars, authVars, unmounted>>

\* a map that puts the returned row in every entry's place
MapReplaceAll(prev, col, target, data) == [i \in DOMAIN prev |-> data]

\* setCart(prev => prev.map(item => item.<col> === target ? data : item))
MapReplace(prev, col, target, data) ==
    [i \in DOMAIN prev |-> IF Targets(prev[i], col, target) THEN data ELSE prev[i]]

\* setCart(prev => prev.filter(item => item.<col> !== target)); clearCart: setCart([])
FilterOut(prev, col, target) ==
    IF col = "all" THEN <<>>
    ELSE SelectSeq(prev, LAMBDA r : ~Targets(r, col, target))

\* a resume that patches the mirror whether or not the request failed
CartResumeIgnoringError(c) ==
    /\ c \in cartCalls
    /\ c.pc = "replied"
    /\ cartCalls' = cartCalls \ {c}
    /\ cartRet' = [op |-> c.op,
                   error |-> IF c.err THEN RemoteError ELSE Null]
    /\ cart' = CASE c.kind = "insert" -> <<c.data>> \o cart
                 [] c.kind = "update" -> MapReplace(cart, c.col, c.target, c.data)
                 [] OTHER -> FilterOut(cart, c.col, c.target)
    /\ UNCHANGED <<user, carts, cartLoading, cartEffect, cartFetch, nextId, nextCall,
                   otherWrote>>
    /\ UNCHANGED <<bridgeVars, udVars, upVars, searchVars, authVars, unmounted>>

\* the operation resumes after its await, patches the mirror and returns
CartResume(c) ==
    /\ c \in cartCalls
    /\ c.pc = "replied"
    /\ cartCalls' = cartCalls \ {c}
    /\ cartRet' = [op |-> c.op,
                   error |-> IF c.err THEN RemoteError ELSE Null]
    /\ cart' = CASE c.err -> cart
                 [] c.kind = "insert" -> <<c.data>> \o cart
                 [] c.kind = "update" -> MapReplace(cart, c.col, c.target, c.data)
                 [] OTHER -> FilterOut(cart, c.col, c.target)
    /\ UNCHANGED <<user, carts, cartLoading, cartEffect, cartFetch, nextId, nextCall,
                   otherWrote>>
    /\ UNCHANGED <<bridgeVars, udVars, upVars, searchVars, authVars, unmounted>>

\* another session (another tab or device of some user) writes to carts
OtherSessionCartWrite ==
    /\ table = "carts"
    /\ ~otherWrote
    /\ otherWrote' = TRUE
    /\ \/ \E u \in Users, p \in Products :
            /\ carts' = carts \cup {CartRow(nextId, u, p, Null, 1)}
            /\ nextId' = nextId + 1
       \/ \E r \in carts :
            /\ carts' = carts \ {r}
            /\ UNCHANGED nextId
    /\ UNCHANGED <<user, cart, cartLoading, cartEffect, cartFetch, cartCalls, cartRet,
                   nextCall>>
    /\ UNCHANGED <<bridgeVars, udVars, upVars, searchVars, authVars, unmounted>>

----------------------------------------------------------------------------
(* Bridge-fed providers: ProductProvider, CategoryProvider,                *)
(* ServiceProvider, WantToBuyProvider.  One provider is observed at a      *)
(* time; `table` names it.  A name is a number, ordered as localeCompare   *)
(* and ORDER BY name order strings.                                        *)

Tables == {"products", "categories", "services", "want_to_buy"}
Names == {1, 2}

Row(id, name, active, done, u) ==
    [id |-> id, name |-> name, active |-> active, done |-> done, user_id |-> u]

\* the row a provider's insert writes into table t
NewRow(t, id, name, u) ==
    CASE t = "categories"  -> Row(id, name, TRUE, Null, Null)
      [] t = "want_to_buy" -> Row(id, name, Null, FALSE, u)
      [] OTHER             -> Row(id, name, Null, Null, Null)

Ids(s) == {s[i].id : i \in DOMAIN s}

\* all orderings of a set of rows
RECURSIVE Orderings(_)
Orderings(S) ==
    IF S = {} THEN {<<>>}
    ELSE UNION {{<<r>> \o t : t \in Orderings(S \ {r})} : r \in S}

AscendingByName(s) == \A i, j \in DOMAIN s : i < j => s[i].name <= s[j].name

\* .order("name", { ascending: true }): rows of equal name in any order
OrderByName(S) == {s \in Orderings(S) : AscendingByName(s)}

\* a select without its .order(...)
FetchResultsNoOrder(t, S) == Orderings(S)

\* what the provider's select returns: categories by name ascending, the
\* others by created_at descending
FetchResults(t, S) ==
    IF t = "categories" THEN OrderByName(S) ELSE {SortDesc(S)}

\* insert x behind the last entry whose name is not greater
RECURSIVE InsertByName(_, _)
InsertByName(s, x) ==
    IF s = <<>> THEN <<x>>
    ELSE IF s[Len(s)].name <= x.name THEN Append(s, x)
    ELSE Append(InsertByName(SubSeq(s, 1, Len(s) - 1), x), s[Len(s)])

\* Array.prototype.sort((a, b) => a.name.localeCompare(b.name)): stable
RECURSIVE SortByName(_)
SortByName(s) ==
    IF s = <<>> THEN <<>>
    ELSE InsertByName(SortByName(SubSeq(s, 1, Len(s) - 1)), s[Len(s)])

\* prev.map(x => x.id === row.id ? row : x)
ReplaceById(prev, row) ==
    [i \in DOMAIN prev |-> IF prev[i].id = row.id THEN row ELSE prev[i]]

\* the realtime handler's INSERT branch
OnInsert(t, prev, row) ==
    IF t = "categories" THEN SortByName(Append(prev, row)) ELSE <<row>> \o prev

\* an UPDATE branch that adds the row when its id is not in the collection
OnUpdateUpsert(t, prev, row) ==
    IF \A i \in DOMAIN prev : prev[i].id # row.id THEN OnInsert(t, prev, row)
    ELSE IF t = "categories" THEN SortByName(ReplaceById(prev, row))
    ELSE ReplaceById(prev, row)

\* the realtime handler's UPDATE branch
OnUpdate(t, prev, row) ==
    IF t = "categories" THEN SortByName(ReplaceById(prev, row))
    ELSE ReplaceById(prev, row)

\* the realtime handler's DELETE branch
OnDelete(prev, old) == SelectSeq(prev, LAMBDA x : x.id # old.id)

\* categories.filter(category => category.active !== false)
activeCategories(cats) == SelectSeq(cats, LAMBDA x : x.active # FALSE)

\* ProductGrid: categories.filter(cat => cat.active)
GridCategories(cats) == SelectSeq(cats, LAMBDA x : x.active = TRUE)

InitRows(t) ==
    CASE t = "categories"  -> { {}, {Row(1, 2, TRUE, Null, Null), Row(2, 1, FALSE, Null, Null)} }
      [] t = "want_to_buy" -> { {}, {Row(1, 1, Null, FALSE, "u1"), Row(2, 2, Null, TRUE, "u2")} }
      [] OTHER             -> { {}, {Row(1, 2, Null, Null, Null), Row(2, 1, Null, Null, Null)} }

\* The provider has mounted: its effect has called the fetch and subscribed;
\* the auth identity, if any, is set.
BridgeInit ==
    /\ table \in Tables
    /\ rows \in InitRows(table)
    /\ items = <<>>
    /\ loading = TRUE
    /\ fetched = {[pc |-> "sent", err |-> FALSE, data |-> <<>>]}
    /\ events = <<>>
    /\ calls = {}
    /\ ret = [op |-> "none", ok |-> FALSE]
    /\ writes = 0
    /\ productsWithCategory = <<>>
    /\ categoryLookups = {}

\* the server serves the provider's select
FetchServe(f) ==
    /\ f \in fetched
    /\ f.pc = "sent"
    /\ \/ fetched' = {[f EXCEPT !.pc = "replied", !.err = TRUE]}
       \/ \E data \in FetchResults(table, rows) :
            fetched' = {[f EXCEPT !.pc = "replied", !.data = data]}
    /\ UNCHANGED <<user, nextId, table, rows, items, loading, events, calls, ret, writes>>
    /\ UNCHANGED <<productsWithCategory, categoryLookups>>
    /\ UNCHANGED <<cartVars, udVars, upVars, searchVars, authVars, unmounted>>

\* a fetch whose error branch returns before setLoading(false)
FetchResumeStillLoading(f) ==
    /\ f \in fetched
    /\ f.pc = "replied"
    /\ fetched' = {}
    /\ items' = IF f.err THEN <<>> ELSE f.data
    /\ productsWithCategory' = IF table = "products" THEN items' ELSE productsWithCategory
    /\ loading' = f.err
    /\ UNCHANGED <<user, nextId, table, rows, events, calls, ret, writes, categoryLookups>>
    /\ UNCHANGED <<cartVars, udVars, upVars, searchVars, authVars, unmounted>>

\* the fetch resumes after its await: setItems(data) or setItems([]), then
\* setLoading(false)
FetchResume(f) ==
    /\ f \in fetched
    /\ f.pc = "replied"
    /\ fetched' = {}
    /\ items' = IF f.err THEN <<>> ELSE f.data
    /\ productsWithCategory' = IF table = "products" THEN items' ELSE productsWithCategory
    /\ loading' = FALSE
    /\ UNCHANGED <<user, nextId, table, rows, events, calls, ret, writes, categoryLookups>>
    /\ UNCHANGED <<cartVars, udVars, upVars, searchVars, authVars, unmounted>>

\* the channel delivers its oldest event to the realtime handler, which
\* runs to its end or, in ProductProvider's INSERT branch for a product
\* with a category_id, to its await of the category lookup
Deliver ==
    /\ events # <<>>
    /\ LET e == Head(events)
       IN  /\ items' = CASE e.type = "INSERT" -> OnInsert(table, items, e.row)
                         [] e.type = "UPDATE" -> OnUpdate(table, items, e.row)
                         [] OTHER             -> OnDelete(items, e.row)
           /\ IF table # "products"
              THEN UNCHANGED <<productsWithCategory, categoryLookups>>
              ELSE CASE e.type = "INSERT" ->
                          \E hasCategory \in BOOLEAN :
                              IF hasCategory
                              THEN /\ categoryLookups' = categoryLookups \cup {e.row}
                                   /\ UNCHANGED productsWithCategory
                              ELSE /\ productsWithCategory' = <<e.row>> \o productsWithCategory
                                   /\ UNCHANGED categoryLookups
                     [] e.type = "UPDATE" ->
                          /\ productsWithCategory' = ReplaceById(productsWithCategory, e.row)
                          /\ UNCHANGED categoryLookups
                     [] OTHER ->
                          /\ productsWithCategory' = OnDelete(productsWithCategory, e.row)
                          /\ UNCHANGED categoryLookups
    /\ events' = Tail(events)
    /\ UNCHANGED <<user, nextId, table, rows, loading, fetched, calls, ret, writes>>
    /\ UNCHANGED <<cartVars, udVars, upVars, searchVars, authVars, unmounted>>

\* the category lookup of an INSERT handler completes and the handler
\* prepends the product to productsWithCategory
CategoryLookupResume(row) ==
    /\ row \in categoryLookups
    /\ categoryLookups' = categoryLookups \ {row}
    /\ productsWithCategory' = <<row>> \o productsWithCategory
    /\ UNCHANGED <<user, nextId, table, rows, items, loading, fetched, events, calls, ret,
                   writes>>
    /\ UNCHANGED <<cartVars, udVars, upVars, searchVars, authVars, unmounted>>

\* an operation returns false without a remote call
ReturnFalse(op) ==
    /\ table \in Tables
    /\ ret' = [op |-> op, ok |-> FALSE]
    /\ UNCHANGED <<user, nextId, table, rows, items, loading, fetched, events, calls, writes>>
    /\ UNCHANGED <<productsWithCategory, categoryLookups>>
    /\ UNCHANGED <<cartVars, udVars, upVars, searchVars, authVars, unmounted>>

\* issue one request to the provider's table and suspend at its await;
\* byUser: the request carries .eq("user_id", user.id)
SendRequest(op, kind, id, field, value, byUser) ==
    /\ table \in Tables
    /\ writes < MaxWrites
    /\ writes' = writes + 1
    /\ calls' = calls \cup
          {[cid |-> writes + 1, op |-> op, kind |-> kind, id |-> id,
            field |-> field, value |-> value, uid |-> user, byUser |-> byUser,
            pc |-> "sent", err |-> FALSE]}
    /\ UNCHANGED <<user, nextId, table, rows, items, loading, fetched, events, ret>>
    /\ UNCHANGED <<productsWithCategory, categoryLookups>>
    /\ UNCHANGED <<cartVars, udVars, upVars, searchVars, authVars, unmounted>>

\* createProduct / createCategory / createService
create(name) ==
    /\ table # "want_to_buy"
    /\ SendRequest("create", "insert", 0, "name", name, FALSE)

\* updateProduct / updateCategory / updateService
update(op, id, field, value) ==
    /\ table # "want_to_buy"
    /\ SendRequest(op, "update", id, field, value, FALSE)

\* deleteProduct / deleteCategory / deleteService
delete(id) ==
    /\ table # "want_to_buy"
    /\ SendRequest("delete", "delete", id, "id", id, FALSE)

\* a toggle that removes the category instead of updating its flag
toggleCategoryActiveDeletes(id) ==
    /\ table = "categories"
    /\ IF id \notin Ids(items)
       THEN ReturnFalse("toggleCategoryActive")
       ELSE SendRequest("toggleCategoryActive", "delete", id, "id", id, FALSE)

toggleCategoryActive(id) ==
    /\ table = "categories"
    /\ IF id \notin Ids(items)
       THEN ReturnFalse("toggleCategoryActive")
       ELSE LET category == items[CHOOSE i \in DOMAIN items : items[i].id = id]
            IN  update("toggleCategoryActive", id, "active", category.active # TRUE)

addWantToBuy(name) ==
    /\ table = "want_to_buy"
    /\ IF user = Null THEN ReturnFalse("addWantToBuy")
       ELSE SendRequest("addWantToBuy", "insert", 0, "name", name, FALSE)

updateWantToBuy(op, id, field, value) ==
    /\ table = "want_to_buy"
    /\ IF user = Null THEN ReturnFalse(op)
       ELSE SendRequest(op, "update", id, field, value, TRUE)

deleteWantToBuy(id) ==
    /\ table = "want_to_buy"
    /\ IF user = Null THEN ReturnFalse("deleteWantToBuy")
       ELSE SendRequest("deleteWantToBuy", "delete", id, "id", id, FALSE)

markAsDone(id) == updateWantToBuy("markAsDone", id, "done", TRUE)

markAsPending(id) == updateWantToBuy("markAsPending", id, "done", FALSE)

\* rows a request's filters select
Selected(tbl, c) ==
    {r \in tbl : r.id = c.id /\ (c.byUser => r.user_id = c.uid)}

\* a row with one column set
Patched(r, field, value) ==
    CASE field = "active" -> [r EXCEPT !.active = value]
      [] field = "done"   -> [r EXCEPT !.done = value]
      [] OTHER            -> [r EXCEPT !.name = value]

\* the events a set of changed rows puts on the channel, oldest id first
RECURSIVE EventsFor(_, _)
EventsFor(type, S) ==
    IF S = {} THEN <<>>
    ELSE LET r == CHOOSE x \in S : \A y \in S : x.id <= y.id
         IN  <<[type |-> type, row |-> r]>> \o EventsFor(type, S \ {r})

\* the server serves a mutation; every row it changes is published
Serve(c) ==
    /\ c \in calls
    /\ c.pc = "sent"
    /\ \/ /\ calls' = (calls \ {c}) \cup {[c EXCEPT !.pc = "replied", !.err = TRUE]}
          /\ UNCHANGED <<rows, events, nextId>>
       \/ /\ calls' = (calls \ {c}) \cup {[c EXCEPT !.pc = "replied"]}
          /\ LET sel == Selected(rows, c)
                 new == NewRow(table, nextId, c.value, c.uid)
                 upd == {Patched(r, c.field, c.value) : r \in sel}
             IN  CASE c.kind = "insert" ->
                        /\ rows' = rows \cup {new}
                        /\ events' = Append(events, [type |-> "INSERT", row |-> new])
                        /\ nextId' = nextId + 1
                   [] c.kind = "update" ->
                        /\ rows' = (rows \ sel) \cup upd
                        /\ events' = events \o EventsFor("UPDATE", upd)
                        /\ UNCHANGED nextId
                   [] OTHER ->
                        /\ rows' = rows \ sel
                        /\ events' = events \o EventsFor("DELETE", sel)
                        /\ UNCHANGED nextId
    /\ UNCHANGED <<user, table, items, loading, fetched, ret, writes>>
    /\ UNCHANGED <<productsWithCategory, categoryLookups>>
    /\ UNCHANGED <<cartVars, udVars, upVars, searchVars, authVars, unmounted>>

\* a resume that filters the deleted row out of the collection itself
ResumeRemovesLocally(c) ==
    /\ c \in calls
    /\ c.pc = "replied"
    /\ calls' = calls \ {c}
    /\ ret' = [op |-> c.op, ok |-> ~c.err]
    /\ items' = IF ~c.err /\ c.kind = "delete"
                THEN SelectSeq(items, LAMBDA x : x.id # c.id)
                ELSE items
    /\ UNCHANGED <<user, nextId, table, rows, loading, fetched, events, writes>>
    /\ UNCHANGED <<productsWithCategory, categoryLookups>>
    /\ UNCHANGED <<cartVars, udVars, upVars, searchVars, authVars, unmounted>>

\* the operation resumes after its await and returns; it leaves the
\* collection to the realtime handler
Resume(c) ==
    /\ c \in calls
    /\ c.pc = "replied"
    /\ calls' = calls \ {c}
    /\ ret' = [op |-> c.op, ok |-> ~c.err]
    /\ UNCHANGED <<user, nextId, table, rows, items, loading, fetched, events, writes>>
    /\ UNCHANGED <<productsWithCategory, categoryLookups>>
    /\ UNCHANGED <<cartVars, udVars, upVars, searchVars, authVars, unmounted>>

\* another session inserts, updates or deletes a row of the table
OtherSessionWrite ==
    /\ table \in Tables
    /\ writes < MaxWrites
    /\ writes' = writes + 1
    /\ \/ \E n \in Names, u \in Users :
            LET new == NewRow(table, nextId, n, u)
            IN  /\ rows' = rows \cup {new}
                /\ events' = Append(events, [type |-> "INSERT", row |-> new])
                /\ nextId' = nextId + 1
       \/ \E r \in rows :
            LET new == CASE table = "categories"  -> [r EXCEPT !.active = (r.active # TRUE)]
                         [] table = "want_to_buy" -> [r EXCEPT !.done = (r.done # TRUE)]
                         [] OTHER -> [r EXCEPT !.name = 3 - r.name]
            IN  /\ rows' = (rows \ {r}) \cup {new}
                /\ events' = Append(events, [type |-> "UPDATE", row |-> new])
                /\ UNCHANGED nextId
       \/ \E r \in rows :
            /\ rows' = rows \ {r}
            /\ events' = Append(events, [type |-> "DELETE", row |-> r])
            /\ UNCHANGED nextId
    /\ UNCHANGED <<user, table, items, loading, fetched, calls, ret>>
    /\ UNCHANGED <<productsWithCategory, categoryLookups>>
    /\ UNCHANGED <<cartVars, udVars, upVars, searchVars, authVars, unmounted>>

DetailsRow(id, u, role) == [id |-> id, user_id |-> u, role |-> role]

NoDetails == DetailsRow(0, Null, Null)

Sites == {"product", "service", "want_to_buy"}

\* the files a form uploads, in the order handleSubmit uploads them
Slots(site) ==
    CASE site = "product" -> <<"front", "back">>
      [] site = "service" -> <<"image">>
      [] OTHER            -> <<"photo">>

\* media fields all holding v
AllMedia(site, v) == [s \in Range(Slots(site)) |-> v]

UploadIdle ==
    /\ upSite = "none"
    /\ upForm = AllMedia("none", Null)
    /\ upFiles = {}
    /\ upPc = "idle"
    /\ upSlot = 0
    /\ upResult = Null
    /\ upFinal = AllMedia("none", Null)
    /\ upAlert = FALSE
    /\ upFailed = FALSE
    /\ upWrites = <<>>
    /\ upSubmits = 0

\* no search has been made
NoQuery == <<Null>>

SearchIdle ==
    /\ searchItems = <<>>
    /\ searchQuery = NoQuery
    /\ searchResult = <<>>

\* the provider observed is mounted
Mounted == unmounted = FALSE

\* session === null
NoSession == [user |-> Null, token |-> 0]

\* getInitialSession has not been called
NoInitialSession == [pc |-> "idle", session |-> NoSession, at |-> 0]

NotSet == [by |-> "none", at |-> 0]

AuthIdle ==
    /\ session = NoSession
    /\ authLoading = FALSE
    /\ authSession = NoSession
    /\ authVersion = 0
    /\ initialSession = NoInitialSession
    /\ sessionSetBy = NotSet

\* the providers not observed stay as they are
UserDetailsIdle ==
    /\ user_details = {}
    /\ userDetails = NoDetails
    /\ udLoading = FALSE
    /\ mountedRef = TRUE
    /\ creatingRef = FALSE
    /\ lookups = {}
    /\ udEffect = 0

CartIdle ==
    /\ carts = {}
    /\ cart = <<>>
    /\ cartLoading = FALSE
    /\ cartEffect = 0
    /\ cartFetch = {}
    /\ cartCalls = {}
    /\ cartRet = NoRet
    /\ nextCall = 0
    /\ otherWrote = FALSE

BridgeIdle ==
    /\ rows = {}
    /\ items = <<>>
    /\ loading = FALSE
    /\ fetched = {}
    /\ events = <<>>
    /\ calls = {}
    /\ ret = [op |-> "none", ok |-> FALSE]
    /\ writes = 0
    /\ productsWithCategory = <<>>
    /\ categoryLookups = {}

\* the server, the channel and the resumptions of what awaits them
BridgeRemote ==
    \/ \E f \in fetched : FetchServe(f)
    \/ \E f \in fetched : FetchResume(f)
    \/ Deliver
    \/ \E c \in calls : Serve(c)
    \/ \E c \in calls : Resume(c)

BridgeNext ==
    \/ BridgeRemote
    \/ \E row \in categoryLookups : CategoryLookupResume(row)
    \/ \E n \in Names : create(n)
    \/ \E n \in Names : addWantToBuy(n)
    \/ OtherSessionWrite

\* any one bridge-fed provider, the inserts of its session and the writes of
\* other sessions
BridgeStart ==
    /\ BridgeInit
    /\ user \in (IF table = "want_to_buy" THEN {"u1", Null} ELSE {"u1"})
    /\ nextId = 4
    /\ CartIdle
    /\ UserDetailsIdle
    /\ UploadIdle
    /\ SearchIdle
    /\ AuthIdle
    /\ Mounted

BridgeSpec == BridgeStart /\ [][BridgeNext]_vars

CategoryNext ==
    \/ BridgeRemote
    \/ \E r \in rows, n \in Names : update("update", r.id, "name", n)
    \/ \E r \in rows : delete(r.id)
    \/ \E r \in rows : toggleCategoryActive(r.id)

\* CategoryProvider with an admin at work
CategoryStart ==
    /\ BridgeInit
    /\ table = "categories"
    /\ user = "u1"
    /\ nextId = 4
    /\ CartIdle
    /\ UserDetailsIdle
    /\ UploadIdle
    /\ SearchIdle
    /\ AuthIdle
    /\ Mounted

CategorySpec == CategoryStart /\ [][CategoryNext]_vars

WantToBuyNext ==
    \/ BridgeRemote
    \/ \E n \in Names : addWantToBuy(n)
    \/ \E r \in rows, v \in BOOLEAN : updateWantToBuy("updateWantToBuy", r.id, "done", v)
    \/ \E r \in rows : markAsDone(r.id)
    \/ \E r \in rows : markAsPending(r.id)
    \/ \E r \in rows : deleteWantToBuy(r.id)

\* WantToBuyProvider on the admin page, or with nobody signed in
WantToBuyStart ==
    /\ BridgeInit
    /\ table = "want_to_buy"
    /\ user \in {"u1", Null}
    /\ nextId = 4
    /\ CartIdle
    /\ UserDetailsIdle
    /\ UploadIdle
    /\ SearchIdle
    /\ AuthIdle
    /\ Mounted

WantToBuySpec == WantToBuyStart /\ [][WantToBuyNext]_vars

----------------------------------------------------------------------------
(* UserDetailsProvider                                                     *)

\* rows written before the session
EarlierDetails == {DetailsRow(1, "u2", "admin")}

\* the table after an earlier session left u2 a second row
DuplicateDetails == {DetailsRow(1, "u2", "admin"), DetailsRow(2, "u2", "customer")}

\* nobody has signed in yet: the effect's first run took the !user branch
UserDetailsInit ==
    /\ user_details \in { {}, EarlierDetails, DuplicateDetails }
    /\ userDetails = NoDetails
    /\ udLoading = FALSE
    /\ mountedRef = TRUE
    /\ creatingRef = FALSE
    /\ lookups = {}
    /\ udEffect = 0

\* AuthProvider sets user to the user object of an auth event (a new object,
\* also for the same id); the effect's cleanup clears mountedRef, the new
\* run sets it again, clears creatingRef and calls fetchUserDetails, which
\* runs up to its first await.
UserDetailsAuthStateChange(u) ==
    /\ table = "user_details"
    /\ udEffect < MaxGen
    /\ ~(u = Null /\ user = Null)
    /\ udEffect' = udEffect + 1
    /\ user' = u
    /\ mountedRef' = TRUE
    /\ creatingRef' = FALSE
    /\ IF u = Null
         THEN /\ userDetails' = NoDetails
              /\ udLoading' = FALSE
              /\ UNCHANGED lookups
         ELSE /\ udLoading' = TRUE
              /\ lookups' = lookups \cup
                     {[gen |-> udEffect + 1, uid |-> u, pc |-> "select",
                       replied |-> FALSE, err |-> FALSE, data |-> <<>>]}
              /\ UNCHANGED userDetails
    /\ UNCHANGED <<nextId, user_details>>
    /\ UNCHANGED <<cartVars, bridgeVars, upVars, searchVars, authVars, unmounted>>

\* the server serves the select of user_details by user_id; the request
\* names no order
LookupSelectServe(l) ==
    /\ l \in lookups
    /\ l.pc = "select" /\ ~l.replied
    /\ \/ lookups' = (lookups \ {l}) \cup {[l EXCEPT !.replied = TRUE, !.err = TRUE]}
       \/ \E data \in Orderings(UserRows(user_details, l.uid)) :
            lookups' = (lookups \ {l}) \cup {[l EXCEPT !.replied = TRUE, !.data = data]}
    /\ UNCHANGED <<user, nextId, user_details, userDetails, udLoading, mountedRef,
                   creatingRef, udEffect>>
    /\ UNCHANGED <<cartVars, bridgeVars, upVars, searchVars, authVars, unmounted>>

\* a resume that deletes the rows behind the first one
LookupSelectResumeDedupes(l) ==
    /\ l \in lookups
    /\ l.pc = "select" /\ l.replied
    /\ ~l.err /\ Len(l.data) > 0
    /\ userDetails' = IF mountedRef THEN l.data[1] ELSE userDetails
    /\ udLoading' = IF mountedRef THEN FALSE ELSE udLoading
    /\ lookups' = lookups \ {l}
    /\ user_details' = user_details \ {l.data[i] : i \in 2 .. Len(l.data)}
    /\ UNCHANGED <<user, nextId, mountedRef, creatingRef, udEffect>>
    /\ UNCHANGED <<cartVars, bridgeVars, upVars, searchVars, authVars, unmounted>>

\* fetchUserDetails resumes after the select: it uses the first row, or
\* skips because creatingRef is set, or sets creatingRef and issues the
\* insert of the default row
LookupSelectResume(l) ==
    /\ l \in lookups
    /\ l.pc = "select" /\ l.replied
    /\ IF ~l.err /\ Len(l.data) > 0
         THEN /\ userDetails' = IF mountedRef THEN l.data[1] ELSE userDetails
              /\ udLoading' = IF mountedRef THEN FALSE ELSE udLoading
              /\ lookups' = lookups \ {l}
              /\ UNCHANGED creatingRef
         ELSE IF creatingRef
         THEN /\ udLoading' = IF mountedRef THEN FALSE ELSE udLoading
              /\ lookups' = lookups \ {l}
              /\ UNCHANGED <<userDetails, creatingRef>>
         ELSE /\ creatingRef' = TRUE
              /\ lookups' = (lookups \ {l}) \cup
                     {[l EXCEPT !.pc = "insert", !.replied = FALSE, !.err = FALSE,
                                !.data = <<>>]}
              /\ UNCHANGED <<userDetails, udLoading>>
    /\ UNCHANGED <<user, nextId, user_details, mountedRef, udEffect>>
    /\ UNCHANGED <<cartVars, bridgeVars, upVars, searchVars, authVars, unmounted>>

\* the server serves the insert of the default row
LookupInsertServe(l) ==
    /\ l \in lookups
    /\ l.pc = "insert" /\ ~l.replied
    /\ \/ /\ lookups' = (lookups \ {l}) \cup {[l EXCEPT !.replied = TRUE, !.err = TRUE]}
          /\ UNCHANGED <<user_details, nextId>>
       \/ LET new == DetailsRow(nextId, l.uid, "customer")
          IN  /\ user_details' = user_details \cup {new}
              /\ nextId' = nextId + 1
              /\ lookups' = (lookups \ {l}) \cup
                     {[l EXCEPT !.replied = TRUE, !.data = <<new>>]}
    /\ UNCHANGED <<user, userDetails, udLoading, mountedRef, creatingRef, udEffect>>
    /\ UNCHANGED <<cartVars, bridgeVars, upVars, searchVars, authVars, unmounted>>

\* fetchUserDetails resumes after the insert
LookupInsertResume(l) ==
    /\ l \in lookups
    /\ l.pc = "insert" /\ l.replied
    /\ creatingRef' = FALSE
    /\ userDetails' = IF l.err THEN NoDetails
                      ELSE IF mountedRef THEN l.data[1] ELSE userDetails
    /\ udLoading' = IF mountedRef THEN FALSE ELSE udLoading
    /\ lookups' = lookups \ {l}
    /\ UNCHANGED <<user, nextId, user_details, mountedRef, udEffect>>
    /\ UNCHANGED <<cartVars, bridgeVars, upVars, searchVars, authVars, unmounted>>

UserDetailsNext ==
    \/ \E u \in Users \cup {Null} : UserDetailsAuthStateChange(u)
    \/ \E l \in lookups : LookupSelectServe(l)
    \/ \E l \in lookups : LookupSelectResume(l)
    \/ \E l \in lookups : LookupInsertServe(l)
    \/ \E l \in lookups : LookupInsertResume(l)

UserDetailsStart ==
    /\ user = Null
    /\ nextId = 4
    /\ table = "user_details"
    /\ CartIdle
    /\ BridgeIdle
    /\ UserDetailsInit
    /\ UploadIdle
    /\ SearchIdle
    /\ AuthIdle
    /\ Mounted

\* one session of UserDetailsProvider under auth events
UserDetailsSpec == UserDetailsStart /\ [][UserDetailsNext]_vars

----------------------------------------------------------------------------
(* Upload call sites: InventoryModal, ServiceModal and WantToBuyPage       *)
(* handleSubmit.  A media field is Null, "old" (a URL stored earlier) or   *)
(* "new" (the public URL uploadImage returned).                            *)

\* positions in Slots(site) of the files still to upload, after position k
Pending(site, files, k) ==
    {i \in DOMAIN Slots(site) : i > k /\ Slots(site)[i] \in files}

\* the form as it opens: a new item, or (admin modals) an item being edited
UploadInit ==
    /\ upSite \in Sites
    /\ upForm \in {AllMedia(upSite, Null)} \cup
                  (IF upSite = "want_to_buy" THEN {} ELSE {AllMedia(upSite, "old")})
    /\ upFiles = {}
    /\ upPc = "idle"
    /\ upSlot = 0
    /\ upResult = Null
    /\ upFinal = upForm
    /\ upAlert = FALSE
    /\ upFailed = FALSE
    /\ upWrites = <<>>
    /\ upSubmits = 0

\* handleFrontImageChange / handleBackImageChange / handleImageChange
SelectFile(slot) ==
    /\ upPc = "idle"
    /\ slot \in Range(Slots(upSite)) \ upFiles
    /\ upFiles' = upFiles \cup {slot}
    /\ UNCHANGED <<upSite, upForm, upPc, upSlot, upResult, upFinal, upAlert, upFailed,
                   upWrites, upSubmits>>
    /\ UNCHANGED <<user, nextId, cartVars, bridgeVars, udVars, searchVars, authVars, unmounted>>

\* onSave(finalFormData) / addWantToBuy({..., media_url: mediaUrl}): the
\* insert or update of the owning row is issued with these media fields
IssueWrite(media, failed) ==
    /\ upWrites' = Append(upWrites, [media |-> media, files |-> upFiles,
                                     failed |-> failed])
    /\ upFiles' = {}
    /\ upPc' = "idle"
    /\ upSlot' = 0

\* handleSubmit up to its first await, or to its end when no file is selected
HandleSubmit ==
    /\ upSite \in Sites
    /\ upPc = "idle"
    /\ upSubmits < MaxSubmits
    /\ upSubmits' = upSubmits + 1
    /\ upFailed' = FALSE
    /\ LET todo == Pending(upSite, upFiles, 0)
       IN  IF todo = {}
           THEN /\ IssueWrite(upForm, FALSE)
                /\ upFinal' = upForm
           ELSE /\ upPc' = "sent"
                /\ upSlot' = CHOOSE i \in todo : \A j \in todo : i <= j
                /\ upFinal' = upForm
                /\ UNCHANGED <<upFiles, upWrites>>
    /\ UNCHANGED <<upSite, upForm, upResult, upAlert>>
    /\ UNCHANGED <<user, nextId, cartVars, bridgeVars, udVars, searchVars, authVars, unmounted>>

\* uploadImage completes: the public URL, or null when storage refused
UploadServe ==
    /\ upPc = "sent"
    /\ upPc' = "replied"
    /\ upResult' \in {"new", Null}
    /\ UNCHANGED <<upSite, upForm, upFiles, upSlot, upFinal, upAlert, upFailed, upWrites,
                   upSubmits>>
    /\ UNCHANGED <<user, nextId, cartVars, bridgeVars, udVars, searchVars, authVars, unmounted>>

\* handleSubmit resumes after its await of uploadImage
UploadResume ==
    /\ upPc = "replied"
    /\ LET slot == Slots(upSite)[upSlot]
           todo == Pending(upSite, upFiles, upSlot)
           final == [upFinal EXCEPT ![slot] = upResult]
       IN  IF upSite = "want_to_buy"
           THEN /\ upFinal' = final
                /\ upFailed' = (upFailed \/ upResult = Null)
                /\ IssueWrite(final, upFailed \/ upResult = Null)
                /\ UNCHANGED upAlert
           ELSE IF upResult = Null
           THEN /\ upAlert' = TRUE
                /\ upFailed' = TRUE
                /\ upPc' = "idle"
                /\ upSlot' = 0
                /\ UNCHANGED <<upFinal, upFiles, upWrites>>
           ELSE /\ upFinal' = final
                /\ IF todo = {}
                   THEN IssueWrite(final, upFailed)
                   ELSE /\ upSlot' = CHOOSE i \in todo : \A j \in todo : i <= j
                        /\ upPc' = "sent"
                        /\ UNCHANGED <<upFiles, upWrites>>
                /\ UNCHANGED <<upAlert, upFailed>>
    /\ UNCHANGED <<upSite, upForm, upResult, upSubmits>>
    /\ UNCHANGED <<user, nextId, cartVars, bridgeVars, udVars, searchVars, authVars, unmounted>>

UploadNext ==
    \/ \E slot \in {"front", "back", "image", "photo"} : SelectFile(slot)
    \/ HandleSubmit
    \/ UploadServe
    \/ UploadResume

UploadStart ==
    /\ user = "u1"
    /\ nextId = 4
    /\ table = "none"
    /\ CartIdle
    /\ BridgeIdle
    /\ UserDetailsIdle
    /\ UploadInit
    /\ SearchIdle
    /\ AuthIdle
    /\ Mounted

\* one form with media files, submitted up to MaxSubmits times
UploadSpec == UploadStart /\ [][UploadNext]_vars

----------------------------------------------------------------------------
(* Specifications of the cart                                              *)

\* nothing of this session is awaiting a remote result
Quiescent == cartFetch = {} /\ cartCalls = {}

\* a session that starts a cart operation or changes identity only when
\* every earlier call has completed and been applied, with no other writer
CartNext ==
    \/ /\ Quiescent
       /\ \/ \E u \in Users \cup {Null} : CartAuthStateChange(u)
          \/ \E p \in Products, q \in Quantities : addToCart(p, q)
          \/ \E s \in Services, q \in Quantities : addServiceToCart(s, q)
          \/ \E p \in Products : removeFromCart(p)
          \/ \E s \in Services : removeServiceFromCart(s)
          \/ \E p \in Products, q \in Quantities : updateCartItem(p, q)
          \/ clearCart
    \/ \E f \in cartFetch : FetchCartServe(f)
    \/ \E f \in cartFetch : FetchCartResume(f)
    \/ \E c \in cartCalls : CartServe(c)
    \/ \E c \in cartCalls : CartResume(c)

Init ==
    /\ CartInit
    /\ table = "carts"
    /\ BridgeIdle
    /\ UserDetailsIdle
    /\ UploadIdle
    /\ SearchIdle
    /\ AuthIdle
    /\ Mounted

Spec == Init /\ [][CartNext]_vars

\* a session that signs in and whose product operations may overlap each
\* other and the initial fetch
CartRaceNext ==
    \/ \E u \in Users : user = Null /\ CartAuthStateChange(u)
    \/ \E p \in Products, q \in Quantities : addToCart(p, q)
    \/ \E p \in Products : removeFromCart(p)
    \/ \E f \in cartFetch : FetchCartServe(f)
    \/ \E f \in cartFetch : FetchCartResume(f)
    \/ \E c \in cartCalls : CartServe(c)
    \/ \E c \in cartCalls : CartResume(c)

CartRaceSpec == Init /\ [][CartRaceNext]_vars

\* a session that only watches its cart while another session writes to it
CartWatchNext ==
    \/ \E u \in Users \cup {Null} : CartAuthStateChange(u)
    \/ \E f \in cartFetch : FetchCartServe(f)
    \/ \E f \in cartFetch : FetchCartResume(f)
    \/ OtherSessionCartWrite

\* the server answers every request and every answer resumes its awaiter;
\* nothing obliges the user or another session to act
CartLiveSpec ==
    /\ Init
    /\ [][CartWatchNext]_vars
    /\ WF_vars(\E f \in cartFetch : FetchCartServe(f))
    /\ WF_vars(\E f \in cartFetch : FetchCartResume(f))

\* any one provider, the cart's included, from mount to the application of
\* its initial fetch, beside the writes of other sessions
FetchStart == Init \/ BridgeStart

FetchNext ==
    \/ CartWatchNext
    \/ \E f \in fetched : FetchServe(f)
    \/ \E f \in fetched : FetchResume(f)
    \/ Deliver
    \/ \E row \in categoryLookups : CategoryLookupResume(row)
    \/ OtherSessionWrite

FetchSpec == FetchStart /\ [][FetchNext]_vars

\* any one provider and the mutations of its own session, one at a time
MutationStart == Init \/ BridgeStart

MutationNext ==
    \/ CartNext
    \/ BridgeRemote
    \/ \E row \in categoryLookups : CategoryLookupResume(row)
    \/ calls = {} /\ \E n \in Names : create(n)
    \/ calls = {} /\ \E r \in rows, n \in Names : update("update", r.id, "name", n)
    \/ calls = {} /\ \E r \in rows : delete(r.id)
    \/ calls = {} /\ \E n \in Names : addWantToBuy(n)
    \/ calls = {} /\ \E r \in rows :
            updateWantToBuy("updateWantToBuy", r.id, "name", 3 - r.name)
    \/ calls = {} /\ \E r \in rows : deleteWantToBuy(r.id)

MutationSpec == MutationStart /\ [][MutationNext]_vars

----------------------------------------------------------------------------
(* Cart merge logic: properties                                            *)

\* remote rows of user u for a target
RowsOf(tbl, u, col, target) == {r \in tbl : r.user_id = u /\ Targets(r, col, target)}

\* mirror entries for a target
ItemsOf(c, col, target) == {i \in DOMAIN c : Targets(c[i], col, target)}

\* at most one carts row per (user_id, product_id) and per (user_id, service_id)
NoDupCart ==
    \A r1, r2 \in carts :
        (r1 # r2 /\ r1.user_id = r2.user_id) =>
            /\ ~(r1.product_id # Null /\ r1.product_id = r2.product_id)
            /\ ~(r1.service_id # Null /\ r1.service_id = r2.service_id)

\* the mirror holds exactly the current user's remote rows, each once
InSync ==
    /\ Range(cart) = {r \in carts : r.user_id = user}
    /\ Len(cart) = Cardinality(Range(cart))

\* amount of the single row of (u, product p); 0 when absent
AmountOf(tbl, u, p) ==
    LET rs == RowsOf(tbl, u, "product_id", p)
    IN  IF rs = {} THEN 0 ELSE (CHOOSE r \in rs : TRUE).amount

\* the step serves call c and accepts it
ServedOk(c) ==
    /\ c.pc = "sent"
    /\ \E d \in cartCalls' : d.cid = c.cid /\ d.pc = "replied" /\ ~d.err

\* the step resumes call c, whose request was accepted
ResumedOk(c) == c.pc = "replied" /\ ~c.err /\ c \notin cartCalls'

\* the mirror is in sync except that c's accepted write is not applied yet
SyncedBut(c) ==
    LET others(S) == {r \in S : r.id # c.data.id}
    IN  /\ others(Range(cart)) = others({r \in carts : r.user_id = user})
        /\ Len(cart) = Cardinality(Range(cart))
        /\ c.data \in carts
        /\ (c.kind = "update") = (\E i \in DOMAIN cart : cart[i].id = c.data.id)

\* C1: in a session whose cart operations do not overlap and with no other
\* writer, every reachable state has at most one carts row per
\* (user_id, product_id) and per (user_id, service_id).
C1_OneRowPerTarget == NoDupCart

\* the call a step has just started, if any
Started == {c \in cartCalls' : c.cid > nextCall}

\* C2: an addToCart(p, q) call made while the mirror shows p absent takes
\* the insert branch whatever else is in flight, and the server adds a row
\* for every insert it accepts whatever rows exist; so two overlapping
\* calls leave two rows for one (user_id, product_id).
C2_OverlappingAddsBothInsert ==
    [][ /\ \A c \in Started :
             (c.op = "addToCart" /\ ItemsOf(cart, "product_id", c.target) = {})
                => c.kind = "insert"
        /\ \A c \in cartCalls :
             (c.kind = "insert" /\ ServedOk(c))
                => Cardinality(Matching(carts', c)) = Cardinality(Matching(carts, c)) + 1
      ]_vars

\* two overlapping addToCart calls have both inserted a row for (u, p)
C2_Witness ==
    \E c1, c2 \in cartCalls :
        /\ c1.cid < c2.cid
        /\ c1.op = "addToCart" /\ c2.op = "addToCart"
        /\ c1.kind = "insert" /\ c2.kind = "insert"
        /\ c1.pc = "replied" /\ c2.pc = "replied"
        /\ ~c1.err /\ ~c2.err
        /\ c1.data.user_id = c2.data.user_id
        /\ c1.data.product_id = c2.data.product_id
        /\ {c1.data, c2.data} \subseteq carts
        /\ ~NoDupCart

\* C3: with the mirror in sync, a successful addToCart(p, q), q >= 1, leaves
\* exactly one remote row for p, with amount q on absent and a + q on
\* present(a), a >= 1; once applied, the mirror is in sync again with that
\* one row.
C3_AddAccumulates ==
    [][ \A c \in cartCalls :
          (c.op = "addToCart" /\ c.arg >= 1 /\ c.uid = user /\ NoDupCart) =>
            /\ (ServedOk(c) /\ InSync /\ AmountOf(carts, c.uid, c.target) >= 0) =>
                  /\ Cardinality(RowsOf(carts', c.uid, "product_id", c.target)) = 1
                  /\ AmountOf(carts', c.uid, c.target)
                        = AmountOf(carts, c.uid, c.target) + c.arg
                  /\ \A r \in carts : ~Targets(r, "product_id", c.target) => r \in carts'
                  /\ NoDupCart'
            /\ (ResumedOk(c) /\ SyncedBut(c)) =>
                  /\ InSync'
                  /\ \E i \in DOMAIN cart' :
                        /\ cart'[i] = c.data
                        /\ ItemsOf(cart', "product_id", c.target) = {i}
      ]_vars

\* from an empty cart, two successive addToCart("p1", 1) have completed:
\* one row of amount 2, remotely and in the mirror
C3_Witness ==
    /\ Quiescent
    /\ user = "u1"
    /\ nextCall = 2
    /\ cartRet = [op |-> "addToCart", error |-> Null]
    /\ carts = {CartRow(4, "u1", "p1", Null, 2)}
    /\ cart = <<CartRow(4, "u1", "p1", Null, 2)>>

\* C4: updateCartItem(p, n) with n <= 0 issues a delete of the caller's rows
\* for p, never an update; served, it removes exactly those rows and writes
\* none; resumed, it removes p from the mirror.
C4_NonPositiveQuantityDeletes ==
    /\ [](\A c \in cartCalls :
            (c.op = "updateCartItem" /\ c.arg <= 0) =>
                (c.kind = "delete" /\ c.col = "product_id" /\ c.uid # Null))
    /\ [][ \A c \in cartCalls :
             (c.op = "updateCartItem" /\ c.arg <= 0) =>
               /\ ServedOk(c) =>
                     /\ carts' = carts \ RowsOf(carts, c.uid, "product_id", c.target)
                     /\ RowsOf(carts', c.uid, "product_id", c.target) = {}
               /\ ResumedOk(c) =>
                     /\ ItemsOf(cart', "product_id", c.target) = {}
                     /\ cart' = SelectSeq(cart, LAMBDA r : r.product_id # c.target)
                     /\ cartRet'.error = Null
         ]_vars

\* updateCartItem("p1", n), n < 0, has deleted u1's row for p1 remotely
\* and is about to remove it from the mirror
C4_Witness ==
    \E c \in cartCalls :
        /\ c.op = "updateCartItem" /\ c.arg < 0
        /\ c.pc = "replied" /\ ~c.err
        /\ c.uid = "u1" /\ user = "u1"
        /\ RowsOf(carts, "u1", "product_id", "p1") = {}
        /\ ItemsOf(cart, "product_id", "p1") # {}

----------------------------------------------------------------------------
(* Bridge-fed providers: properties                                        *)

\* number of entries of a collection with the given id
CountOf(s, id) == Cardinality({i \in DOMAIN s : s[i].id = id})

\* C5: in every bridge-fed provider, applying the same INSERT event twice
\* leaves exactly one entry for its id; the second application changes
\* nothing.  Stated of every INSERT event queued on the channel, applied to
\* the collection as it is.
C5_InsertTwiceKeepsOneEntry ==
    \A i \in DOMAIN events :
        events[i].type = "INSERT" =>
            LET once  == OnInsert(table, items, events[i].row)
                twice == OnInsert(table, once, events[i].row)
            IN  /\ twice = once
                /\ CountOf(twice, events[i].row.id) = 1

----------------------------------------------------------------------------
(* Initial fetch: properties                                               *)

\* sequence s lists the set S, each row once
Lists(s, S) == Range(s) = S /\ Len(s) = Cardinality(S)

\* created_at descending
NewestFirst(s) == \A i, j \in DOMAIN s : i < j => s[i].id > s[j].id

\* the order configured for table t
Configured(t, s) == IF t = "categories" THEN AscendingByName(s) ELSE NewestFirst(s)

\* the step has the server answer the provider's select with rows
FetchServedOk(f) ==
    f.pc = "sent" /\ fetched' # {} /\ \A g \in fetched' : g.pc = "replied" /\ ~g.err

\* the step has the server answer fetchCart's select f with rows
FetchCartServedOk(f) ==
    /\ f.pc = "sent"
    /\ \E g \in cartFetch' : g.gen = f.gen /\ g.pc = "replied" /\ ~g.err

\* the step applies the successful result f of the provider's select
FetchApplied(f) == f.pc = "replied" /\ ~f.err /\ fetched' = {}

\* the step applies the successful result f of fetchCart's select
FetchCartApplied(f) ==
    f.pc = "replied" /\ ~f.err /\ f \notin cartFetch' /\ f.gen = cartEffect

----------------------------------------------------------------------------
(* user_details, realtime coverage, category toggle, want-to-buy updates   *)

\* C7: within one session, a user_id that had no user_details row gets
\* exactly one default row, whatever the interleaving of auth events,
\* effect runs and lookup and insert completions: never a second insert.
C7_OneDefaultRowPerUser ==
    \A u \in Users :
        UserRows(EarlierDetails, u) = {} => Cardinality(UserRows(user_details, u)) <= 1

\* C8 for the cart: once another session has written to carts, the mirror
\* of the signed-in user comes to list that user's remote rows, with no
\* reload or refetch required.
C8_CartReflectsOtherSessions == (otherWrote /\ user # Null) ~> InSync

\* the provider's operations started by the step
StartedCalls == {c \in calls' : c.cid > writes}

\* the step has the server accept call c
Accepted(c) ==
    c.pc = "sent" /\ \E d \in calls' : d.cid = c.cid /\ d.pc = "replied" /\ ~d.err

\* entries of a collection with the given id
EntriesOf(s, id) == {i \in DOMAIN s : s[i].id = id}

\* C9: toggleCategoryActive on a category whose flag is true issues an
\* update, never a delete; when the server accepts it the row stays in the
\* table with active = false; and when the UPDATE event reaches a collection
\* holding the category, the category stays in categories with
\* active = false and is absent from activeCategories and from the
\* customer-facing filter.
C9_ToggleOffHidesWithoutDelete ==
    [][ /\ \A c \in StartedCalls :
              c.op = "toggleCategoryActive" =>
                  /\ c.kind = "update" /\ c.field = "active"
                  /\ \E i \in EntriesOf(items, c.id) : c.value = (items[i].active # TRUE)
        /\ \A c \in calls :
              (c.op = "toggleCategoryActive" /\ c.value = FALSE /\ Accepted(c)) =>
                  /\ Ids(SortDesc(rows')) = Ids(SortDesc(rows))
                  /\ \A r \in rows' : r.id = c.id => r.active = FALSE
        /\ (/\ events # <<>>
            /\ events' = Tail(events)
            /\ Head(events).type = "UPDATE"
            /\ Head(events).row.active = FALSE
            /\ EntriesOf(items, Head(events).row.id) # {}) =>
                 LET id == Head(events).row.id
                 IN  /\ Cardinality(EntriesOf(items', id)) = Cardinality(EntriesOf(items, id))
                     /\ \A i \in EntriesOf(items', id) : items'[i].active = FALSE
                     /\ id \notin Ids(activeCategories(items'))
                     /\ id \notin Ids(GridCategories(items'))
                     /\ Len(items') = Len(items)
      ]_vars

\* the toggle of category 1, fetched as active, has returned true and its
\* UPDATE event has been applied
C9_Witness ==
    /\ table = "categories"
    /\ ret = [op |-> "toggleCategoryActive", ok |-> TRUE]
    /\ calls = {} /\ events = <<>> /\ writes = 1
    /\ Row(1, 2, FALSE, Null, Null) \in rows
    /\ \E i \in DOMAIN items : items[i] = Row(1, 2, FALSE, Null, Null)
    /\ 1 \notin Ids(activeCategories(items))
    /\ 1 \notin Ids(GridCategories(items))
    /\ Ids(items) = {1, 2}

\* C10: whoever the signed-in caller is, when the server accepts an update
\* {done: v} of an existing want_to_buy row, the update that will return
\* true, the remote row has done = v.
C10_TrueMeansDone ==
    [][ \A c \in calls :
            (/\ c.field = "done"
             /\ Accepted(c)
             /\ \E r \in rows : r.id = c.id) =>
                \E r \in rows' : r.id = c.id /\ r.done = c.value
      ]_vars

----------------------------------------------------------------------------
(* Cart rows: properties                                                   *)

\* C11: every carts row written by the client has amount >= 1, whatever
\* integer quantities addToCart, addServiceToCart and updateCartItem are
\* called with.  The rows of earlier sessions have amount >= 1 and no other
\* session writes.
C11_AmountAtLeastOne == \A r \in carts : r.amount >= 1

\* exactly one of product_id and service_id is set
OneTarget(r) == (r.product_id = Null) # (r.service_id = Null)

\* C12: every row the client inserts has exactly one of product_id and
\* service_id set, and no update changes either column of a row.
C12_OneTargetKept ==
    [][ \A c \in cartCalls :
            ServedOk(c) =>
                /\ \A r \in carts' : r.id >= nextId => OneTarget(r)
                /\ \A r \in carts, q \in carts' :
                       r.id = q.id =>
                           r.product_id = q.product_id /\ r.service_id = q.service_id
                /\ c.kind = "insert" => carts' # carts
      ]_vars

\* a service row inserted by this session sits beside the product rows, and
\* a later update of a product row has been accepted
C12_Witness ==
    /\ Quiescent
    /\ nextCall = 2
    /\ cartRet = [op |-> "updateCartItem", error |-> Null]
    /\ CartRow(4, "u1", Null, "s1", 1) \in carts
    /\ CartRow(1, "u1", "p1", Null, 1) \in carts
    /\ \E r \in carts : r.id = 2 /\ r.product_id = "p2"


----------------------------------------------------------------------------
(* Upload call sites: properties                                           *)

\* C13: at every upload call site, when the upload of a selected file
\* fails the submission is aborted: no insert or update of the owning row
\* is issued, so every payload issued carries a URL for each selected file.
C13_FailedUploadAborts ==
    \A i \in DOMAIN upWrites :
        /\ ~upWrites[i].failed
        /\ \A s \in upWrites[i].files : upWrites[i].media[s] = "new"



\* the step serves request c of the set S with an error
ServedErr(S, T, c) ==
    /\ c.pc = "sent"
    /\ \E d \in T : d.cid = c.cid /\ d.pc = "replied" /\ d.err

\* the step resumes the failed request c
ResumedErr(T, c) == c.pc = "replied" /\ c.err /\ c \notin T

----------------------------------------------------------------------------
(* Initial fetch: failure                                                  *)

\* the step applies the failed result f of the provider's select
FetchFailed(f) == f.pc = "replied" /\ f.err /\ fetched' = {}

\* the step applies the failed result f of the current effect run's fetchCart
FetchCartFailed(f) ==
    f.pc = "replied" /\ f.err /\ f \notin cartFetch' /\ f.gen = cartEffect

----------------------------------------------------------------------------
(* searchProducts / searchServices / searchWantToBuy                       *)

\* the characters names and queries are written in
Chars == {"a", "A", "b", "B", " "}

MaxQuery == 2
MaxItems == 2

\* a name that is null: no string
NoName == <<Null>>

\* strings of at most n characters
Strings(n) == UNION {[1 .. k -> Chars] : k \in 0 .. n}

\* the names (card names) of the rows searched; a row's name may be null
SearchNames ==
    {NoName, <<"A", "b">>, <<"b", "a">>, <<"a", " ", "B">>, <<"B">>, <<" ", "a">>}

\* a collection with the given names, entry i having id i
Shelf(names) == [i \in DOMAIN names |-> [id |-> i, name |-> names[i]]]

Shelves == {Shelf(names) : names \in UNION {[1 .. k -> SearchNames] : k \in 0 .. MaxItems}}

\* String.prototype.toLowerCase, character by character
LowerChar(ch) ==
    CASE ch = "A" -> "a"
      [] ch = "B" -> "b"
      [] OTHER -> ch

toLowerCase(s) == [i \in DOMAIN s |-> LowerChar(s[i])]

\* String.prototype.trim
RECURSIVE trim(_)
trim(s) ==
    IF s = <<>> THEN s
    ELSE IF Head(s) = " " THEN trim(Tail(s))
    ELSE IF s[Len(s)] = " " THEN trim(SubSeq(s, 1, Len(s) - 1))
    ELSE s

\* String.prototype.includes
includes(s, q) ==
    \E k \in 0 .. Len(s) : k + Len(q) <= Len(s) /\ SubSeq(s, k + 1, k + Len(q)) = q

\* a search that compares the name with the query as typed
searchCaseSensitive(coll, query) ==
    IF trim(query) = <<>> THEN coll
    ELSE SelectSeq(coll, LAMBDA it :
                      it.name # NoName /\ includes(toLowerCase(it.name), query))

\* if (!query.trim()) return items;
\* return items.filter(it => it.name?.toLowerCase().includes(query.toLowerCase()))
search(coll, query) ==
    IF trim(query) = <<>> THEN coll
    ELSE LET lowercaseQuery == toLowerCase(query)
         IN  SelectSeq(coll, LAMBDA it :
                          it.name # NoName /\ includes(toLowerCase(it.name), lowercaseQuery))

\* a consumer calls the provider's search function; one call is observed
Search(query) ==
    /\ table \in {"products", "services", "want_to_buy"}
    /\ searchQuery = NoQuery
    /\ searchQuery' = query
    /\ searchResult' = search(searchItems, query)
    /\ UNCHANGED <<user, nextId, searchItems, authVars, unmounted>>
    /\ UNCHANGED <<cartVars, bridgeVars, udVars, upVars>>

SearchNext == \E query \in Strings(MaxQuery) : Search(query)

\* a provider whose collection is any shelf, before any search
SearchStart ==
    /\ user = "u1"
    /\ nextId = 4
    /\ table \in {"products", "services", "want_to_buy"}
    /\ CartIdle
    /\ BridgeIdle
    /\ UserDetailsIdle
    /\ UploadIdle
    /\ searchItems \in Shelves
    /\ searchQuery = NoQuery
    /\ searchResult = <<>>
    /\ AuthIdle
    /\ Mounted

SearchSpec == SearchStart /\ [][SearchNext]_vars

\* two characters are the same letter, whatever their case
SameLetter(x, y) == x = y \/ {x, y} \in {{"a", "A"}, {"b", "B"}}

\* name holds q at some position, case ignored
ContainsIgnoringCase(name, q) ==
    \E k \in 0 .. Len(name) :
        /\ k + Len(q) <= Len(name)
        /\ \A j \in 1 .. Len(q) : SameLetter(name[k + j], q[j])

Blank(q) == \A i \in DOMAIN q : q[i] = " "

\* C16: a search with a non-blank query returns exactly the entries whose
\* name is not null and contains the query ignoring case, in collection
\* order; a search with an empty or whitespace-only query returns the whole
\* collection.
C16_SearchBySubstring ==
    searchQuery # NoQuery =>
        IF Blank(searchQuery)
        THEN searchResult = searchItems
        ELSE searchResult =
                 SelectSeq(searchItems, LAMBDA it :
                              it.name # NoName /\ ContainsIgnoringCase(it.name, searchQuery))

\* the query " b" over a null name and the name "a B": the second entry
\* alone is returned, matched inside the name and against its case
C16_Witness ==
    /\ searchQuery = <<" ", "b">>
    /\ Len(searchItems) = 2
    /\ searchItems[1].name = NoName
    /\ searchItems[2].name = <<"a", " ", "B">>
    /\ searchResult = <<searchItems[2]>>


----------------------------------------------------------------------------
(* ProductProvider: events after the initial fetch                         *)

\* ProductProvider once its initial fetch has been applied
ProductsLoaded ==
    /\ user = "u1"
    /\ nextId = 4
    /\ table = "products"
    /\ rows \in InitRows("products")
    /\ items \in FetchResults("products", rows)
    /\ productsWithCategory = items
    /\ loading = FALSE
    /\ fetched = {}
    /\ events = <<>>
    /\ calls = {}
    /\ ret = [op |-> "none", ok |-> FALSE]
    /\ writes = 0
    /\ categoryLookups = {}
    /\ CartIdle
    /\ UserDetailsIdle
    /\ UploadIdle
    /\ SearchIdle
    /\ AuthIdle
    /\ Mounted

\* other sessions write to products; the channel delivers; lookups complete
ProductEventsNext ==
    \/ OtherSessionWrite
    \/ Deliver
    \/ \E row \in categoryLookups : CategoryLookupResume(row)

ProductEventsSpec == ProductsLoaded /\ [][ProductEventsNext]_vars

\* C17: once every event has been delivered and every handler has finished,
\* each local collection holds what the fold of the events in delivery
\* order over the fetched collection holds: products lists the table's rows
\* and productsWithCategory, given the same events, lists the same rows (an
\* inserted and then deleted row is in neither, an inserted and then
\* updated row is the updated row in both).
C17_EventsFoldInOrder ==
    (events = <<>> /\ categoryLookups = {}) =>
        /\ Range(items) = rows
        /\ Range(productsWithCategory) = Range(items)


----------------------------------------------------------------------------
(* CartProvider: teardown                                                  *)

\* CartProvider is unmounted: the effect's cleanup sets its closure's
\* `mounted` to false; mountedRef.current is left as it is
UnmountCart ==
    /\ table = "carts"
    /\ ~unmounted
    /\ unmounted' = TRUE
    /\ UNCHANGED <<user, nextId, cartVars, bridgeVars, udVars, upVars, searchVars,
                   authVars>>

TeardownNext ==
    \/ CartNext
    \/ UnmountCart

\* a session of cart operations, one at a time, that ends with the provider
\* unmounted while calls may be in flight
TeardownSpec == Init /\ [][TeardownNext]_vars

\* C18: once CartProvider has been unmounted, no result of a call that was
\* in flight at the unmount, the fetch or a mutation, changes the
\* provider's state (cart, loading).
C18_NothingAppliedAfterTeardown ==
    [][ unmounted => cart' = cart /\ cartLoading' = cartLoading ]_vars


----------------------------------------------------------------------------
(* Identity changes                                                        *)

\* either user-scoped provider, from its mount
IdentityStart == Init \/ UserDetailsStart

\* the identity changes at any moment, calls in flight or not, while the
\* session adds single units to its cart
IdentityNext ==
    \/ \E u \in Users : CartAuthStateChange(u)
    \/ \E p \in Products : addToCart(p, 1)
    \/ \E f \in cartFetch : FetchCartServe(f)
    \/ \E f \in cartFetch : FetchCartResume(f)
    \/ \E c \in cartCalls : CartServe(c)
    \/ \E c \in cartCalls : CartResume(c)
    \/ UserDetailsNext

IdentitySpec == IdentityStart /\ [][IdentityNext]_vars

\* C19: after an identity change, once every call in flight has completed,
\* the local cart holds only rows owned by the current identity and
\* userDetails is the current identity's row or null: nothing fetched or
\* written for the previous identity remains.
C19_OnlyCurrentIdentityRemains ==
    /\ (table = "carts" /\ Quiescent /\ user # Null) =>
           \A i \in DOMAIN cart : cart[i].user_id = user
    /\ (table = "user_details" /\ lookups = {} /\ user # Null) =>
           userDetails.user_id \in {user, Null}


----------------------------------------------------------------------------
(* UPDATE events: frame                                                    *)

\* the entries of s whose id is not id, in their order
Others(s, id) == SelectSeq(s, LAMBDA x : x.id # id)

\* new is prev with every entry of the row's id replaced by the row and
\* nothing else changed; without such an entry, new is prev
ReplacedOnly(t, prev, new, row) ==
    /\ EntriesOf(prev, row.id) = {} => new = prev
    /\ Len(new) = Len(prev)
    /\ Others(new, row.id) = Others(prev, row.id)
    /\ \A i \in DOMAIN new : new[i].id = row.id => new[i] = row
    /\ t # "categories" =>
           \A i \in DOMAIN prev : prev[i].id # row.id => new[i] = prev[i]

\* C20: in every bridge-fed container, the step that delivers an UPDATE
\* event for an id the collection does not hold leaves the collection as it
\* is, and for an id it holds puts the event's row in that entry's place and
\* leaves every other entry as it was (categories: in the same relative
\* order, the list being sorted again; elsewhere: at the same position).
\* For products this holds of productsWithCategory as well.
C20_UpdateTouchesOnlyItsEntry ==
    [][ (/\ events # <<>>
         /\ events' = Tail(events)
         /\ Head(events).type = "UPDATE") =>
            /\ ReplacedOnly(table, items, items', Head(events).row)
            /\ table = "products" =>
                   ReplacedOnly(table, productsWithCategory, productsWithCategory',
                                Head(events).row)
      ]_vars

\* another session has renamed service 1 and the UPDATE event has been
\* handled while the fetch is still unanswered: the collection is still empty
C20_Witness ==
    /\ table = "services"
    /\ \E f \in fetched : f.pc = "sent"
    /\ writes = 1
    /\ events = <<>>
    /\ Row(1, 1, Null, Null, Null) \in rows
    /\ items = <<>>


----------------------------------------------------------------------------
(* Bridge-fed containers: who writes the collection                        *)

\* the step applies the result of the initial fetch
FetchResultApplied == fetched # {} /\ fetched' = {}

\* the step hands the channel's oldest event to the realtime handler
EventApplied == events # <<>> /\ events' = Tail(events)

\* the step completes a category lookup of ProductProvider's INSERT handler
LookupApplied == categoryLookups' # categoryLookups /\ categoryLookups' \subseteq categoryLookups

\* C21: in the product, category, service and want-to-buy containers, the
\* step that starts a create / update / delete and the step that returns
\* from it, with true or with false, leave the collection as it is; the
\* collection changes only in a step that applies the fetch result or a
\* bridge event (for productsWithCategory, also the end of an INSERT
\* handler).
C21_OperationsLeaveItems ==
    [][ /\ \A c \in calls :
              (c.pc = "replied" /\ c \notin calls') =>
                  /\ items' = items
                  /\ productsWithCategory' = productsWithCategory
                  /\ ret' = [op |-> c.op, ok |-> ~c.err]
        /\ calls' \ calls # {} /\ (\E c \in calls' : c.pc = "sent" /\ c \notin calls) =>
               items' = items /\ productsWithCategory' = productsWithCategory
        /\ items' # items => FetchResultApplied \/ EventApplied
        /\ productsWithCategory' # productsWithCategory =>
               FetchResultApplied \/ EventApplied \/ LookupApplied
      ]_vars

\* deleteService(1) has returned true while its DELETE event is still on
\* the channel: the table has lost the row and the collection still lists it
C21_Witness ==
    /\ table = "services"
    /\ ret = [op |-> "delete", ok |-> TRUE]
    /\ calls = {}
    /\ fetched = {}
    /\ events # <<>>
    /\ \A r \in rows : r.id # 1
    /\ \E i \in DOMAIN items : items[i].id = 1


----------------------------------------------------------------------------
(* updateCartItem: frame                                                   *)

\* C22: updateCartItem(p, n), n > 0, on a row present in the table and in
\* the mirror: when the server accepts it, that row has amount n and every
\* other row of the table (other products, services, other users) is as it
\* was; when the operation resumes, the mirror's entry for that row is the
\* returned row, with amount n, and every other entry is as it was.
C22_UpdateTouchesOnlyItsRow ==
    [][ \A c \in cartCalls :
          (c.op = "updateCartItem" /\ c.kind = "update") =>
            /\ (ServedOk(c) /\ Matching(carts, c) # {}) =>
                  \E r \in Matching(carts, c) :
                      /\ c.amount = c.arg /\ c.arg > 0
                      /\ carts' = (carts \ {r}) \cup {[r EXCEPT !.amount = c.arg]}
            /\ (ResumedOk(c) /\ \E i \in DOMAIN cart : cart[i].id = c.data.id) =>
                  /\ c.data.amount = c.arg
                  /\ c.data.product_id = c.target /\ c.data.user_id = c.uid
                  /\ cart' = [i \in DOMAIN cart |->
                                 IF cart[i].id = c.data.id THEN c.data ELSE cart[i]]
      ]_vars

\* updateCartItem("p1", 1) has been accepted for a row the mirror still
\* lists with amount 2, beside the mirror's entry for product p2
C22_Witness ==
    /\ user = "u1"
    /\ \E c \in cartCalls :
          /\ c.op = "updateCartItem" /\ c.pc = "replied" /\ ~c.err
          /\ c.data = CartRow(1, "u1", "p1", Null, 1)
    /\ CartRow(1, "u1", "p1", Null, 1) \in carts
    /\ \E i \in DOMAIN cart : cart[i] = CartRow(1, "u1", "p1", Null, 2)
    /\ \E i \in DOMAIN cart : cart[i] = CartRow(2, "u1", "p2", Null, 2)


----------------------------------------------------------------------------
(* user_details: lookup results                                            *)

\* the step resumes fetchUserDetails after the select l
SelectResumed(l) ==
    /\ l.pc = "select" /\ l.replied
    /\ l \notin lookups'
    /\ \A m \in lookups' : ~(m.gen = l.gen /\ m.pc = "select")

\* the step has fetchUserDetails issue the insert of a default row for l
InsertIssued(l) == \E m \in lookups' : m.gen = l.gen /\ m.pc = "insert"

\* C23: when the lookup returns one or more rows for the user, the step
\* that handles it sets userDetails to the first returned row, issues no
\* insert and writes nothing: the table, duplicates included, is as it was.
C23_FirstRowUsedDuplicatesKept ==
    [][ \A l \in lookups :
          (SelectResumed(l) /\ ~l.err /\ Len(l.data) > 0) =>
              /\ userDetails' = l.data[1]
              /\ ~InsertIssued(l)
              /\ lookups' = lookups \ {l}
              /\ user_details' = user_details
      ]_vars

\* u2, who has two rows, is signed in and the lookup has been handled: one
\* of the two is userDetails and both are still in the table
C23_Witness ==
    /\ user = "u2"
    /\ lookups = {}
    /\ ~udLoading
    /\ userDetails \in DuplicateDetails
    /\ DuplicateDetails \subseteq user_details


----------------------------------------------------------------------------
(* loading                                                                 *)

\* any one provider, mounted, with its initial fetch and nothing else
LoadingStart == Init \/ BridgeStart \/ UserDetailsStart

LoadingNext ==
    \/ \E u \in Users \cup {Null} : CartAuthStateChange(u)
    \/ \E f \in cartFetch : FetchCartServe(f)
    \/ \E f \in cartFetch : FetchCartResume(f)
    \/ \E f \in fetched : FetchServe(f)
    \/ \E f \in fetched : FetchResume(f)
    \/ UserDetailsNext

\* code that awaits a reply runs on once the reply is there, and the insert
\* that fetchUserDetails goes on to is answered; nothing obliges the server
\* to answer a select
LoadingSpec ==
    /\ LoadingStart
    /\ [][LoadingNext]_vars
    /\ WF_vars(\E f \in cartFetch : FetchCartResume(f))
    /\ WF_vars(\E f \in fetched : FetchResume(f))
    /\ WF_vars(\E l \in lookups : LookupSelectResume(l))
    /\ WF_vars(\E l \in lookups : LookupInsertServe(l))
    /\ WF_vars(\E l \in lookups : LookupInsertResume(l))

\* the fetch of effect run g, the current one, has its reply
CartFetchReturned(g) ==
    cartEffect = g /\ \E f \in cartFetch : f.gen = g /\ f.pc = "replied"

LookupReturned(g) ==
    udEffect = g /\ \E l \in lookups : l.gen = g /\ l.pc = "select" /\ l.replied

----------------------------------------------------------------------------
(* Operations with nobody signed in                                        *)

----------------------------------------------------------------------------
(* Bridge-fed containers: fetch against events                             *)

\* the fetch result and every event have been applied
AllApplied == table \in Tables /\ fetched = {} /\ events = <<>> /\ categoryLookups = {}

\* C26: in a bridge-fed container, whatever the interleaving of the fetch
\* snapshot, its application and the delivery of events, once all of them
\* have been applied no id is listed twice; and the application of a
\* successful fetch never drops an entry that an event has put in the
\* collection and that is still a row of the table.
C26_EachRowOnce ==
    /\ [](AllApplied => \A r \in rows : CountOf(items, r.id) <= 1)
    /\ [][ \A f \in fetched :
              FetchApplied(f) =>
                  \A i \in DOMAIN items :
                      items[i] \in rows => \E j \in DOMAIN items' : items'[j] = items[i]
         ]_vars


----------------------------------------------------------------------------
(* Cart: mirror against table                                              *)

\* C27: in a session whose cart operations do not overlap, with no other
\* writer and a table free of duplicates at the start, whenever an
\* operation has completed, with or without an error, the mirror lists
\* exactly the current user's rows of the table, same ids and amounts.
C27_MirrorEqualsRemote ==
    (table = "carts" /\ Quiescent /\ user # Null /\ nextCall >= 1) => InSync


----------------------------------------------------------------------------
(* toggleCategoryActive twice                                              *)

\* the active flag of the table's row id
ActiveOf(tbl, id) == (CHOOSE r \in tbl : r.id = id).active

\* C28: a toggleCategoryActive issued after an earlier one has returned
\* true, and accepted by the server, flips the row's remote flag, wherever
\* the first call's UPDATE event is by then: so two successive toggles of a
\* category leave its flag at the original value.
C28_SecondToggleFlipsBack ==
    [][ \A c \in calls :
          (/\ c.op = "toggleCategoryActive"
           /\ Accepted(c)
           /\ calls = {c}
           /\ c.cid = 2
           /\ ret = [op |-> "toggleCategoryActive", ok |-> TRUE]
           /\ \E r \in rows : r.id = c.id) =>
              (ActiveOf(rows', c.id) = TRUE) # (ActiveOf(rows, c.id) = TRUE)
      ]_vars


----------------------------------------------------------------------------
(* user_details: when the default row is inserted                          *)

\* C29: the step that handles the lookup by user_id issues the insert of a
\* default row only when the lookup completed without error and returned
\* no row; a failed lookup never leads to an insert.
C29_InsertOnlyAfterEmptyLookup ==
    [][ \A l \in lookups :
          (SelectResumed(l) /\ InsertIssued(l)) => (~l.err /\ Len(l.data) = 0)
      ]_vars


----------------------------------------------------------------------------
(* AuthProvider                                                            *)

\* changes of the client's session observed in one run
MaxSessions == 2

\* the session supabase.auth issues for u at its change number n
SessionOf(u, n) == [user |-> u, token |-> n]

\* the sessions local storage may hold when the application loads
StoredSessions == {NoSession, SessionOf("u1", 0)}

\* AuthProvider has mounted and its effect has run: getInitialSession is
\* called and suspended at its await of getSession, the listener is subscribed
AuthInit ==
    /\ user = Null
    /\ session = NoSession
    /\ authLoading = TRUE
    /\ authSession \in StoredSessions
    /\ authVersion = 0
    /\ initialSession = [pc |-> "sent", session |-> NoSession, at |-> 0]
    /\ sessionSetBy = NotSet

AuthStart ==
    /\ AuthInit
    /\ nextId = 1
    /\ table = "none"
    /\ CartIdle
    /\ BridgeIdle
    /\ UserDetailsIdle
    /\ UploadIdle
    /\ SearchIdle
    /\ Mounted

\* supabase.auth answers getSession: the session it holds now, or an error
\* with a null session, or a rejection
GetSessionServe ==
    /\ initialSession.pc = "sent"
    /\ \E outcome \in {"ok", "error", "throw"} :
          initialSession' =
              [pc |-> IF outcome = "throw" THEN "thrown" ELSE "served",
               session |-> IF outcome = "ok" THEN authSession ELSE NoSession,
               at |-> authVersion]
    /\ UNCHANGED <<user, session, authLoading, authSession, authVersion, sessionSetBy>>
    /\ UNCHANGED <<nextId, cartVars, bridgeVars, udVars, upVars, searchVars, unmounted>>

\* getInitialSession resumes after its await: it sets session, user and
\* loading when the effect's closure is still mounted; after a rejection
\* only loading
GetInitialSessionResume ==
    /\ initialSession.pc \in {"served", "thrown"}
    /\ initialSession' = [initialSession EXCEPT !.pc = "done"]
    /\ IF unmounted
         THEN UNCHANGED <<user, session, authLoading, sessionSetBy>>
         ELSE IF initialSession.pc = "thrown"
                THEN /\ authLoading' = FALSE
                     /\ UNCHANGED <<user, session, sessionSetBy>>
                ELSE /\ session' = initialSession.session
                     /\ user' = initialSession.session.user
                     /\ authLoading' = FALSE
                     /\ sessionSetBy' = [by |-> "initial", at |-> initialSession.at]
    /\ UNCHANGED <<authSession, authVersion>>
    /\ UNCHANGED <<nextId, cartVars, bridgeVars, udVars, upVars, searchVars, unmounted>>

\* the client's session changes (sign-in, sign-out, token refresh) and
\* supabase.auth calls the subscribed listener with the new session
onAuthStateChange(u) ==
    /\ ~unmounted
    /\ authVersion < MaxSessions
    /\ authVersion' = authVersion + 1
    /\ authSession' = IF u = Null THEN NoSession ELSE SessionOf(u, authVersion')
    /\ session' = authSession'
    /\ user' = authSession'.user
    /\ authLoading' = FALSE
    /\ sessionSetBy' = [by |-> "event", at |-> authVersion']
    /\ UNCHANGED initialSession
    /\ UNCHANGED <<nextId, cartVars, bridgeVars, udVars, upVars, searchVars, unmounted>>

\* the effect's cleanup: mounted = false, subscription.unsubscribe()
AuthCleanup ==
    /\ ~unmounted
    /\ unmounted' = TRUE
    /\ UNCHANGED <<user, nextId, cartVars, bridgeVars, udVars, upVars, searchVars,
                   authVars>>

AuthNext ==
    \/ GetSessionServe
    \/ GetInitialSessionResume
    \/ \E u \in Users \cup {Null} : onAuthStateChange(u)
    \/ AuthCleanup

\* AuthProvider from its mount on, with the client's session changing while
\* getInitialSession is in flight
AuthSpec == AuthStart /\ [][AuthNext]_vars

\* C30: once an auth-state-change event has set user and session, the result
\* of getInitialSession, resolving later, does not replace them with a value
\* the client held before that event.
C30_InitialSessionNeverOverwritesNewer ==
    [][ ( /\ initialSession.pc = "served"
          /\ initialSession'.pc = "done"
          /\ ~unmounted
          /\ sessionSetBy.by = "event" )
        => ( \/ sessionSetBy'.at >= sessionSetBy.at
             \/ (session' = session /\ user' = user) )
      ]_vars

====
